---- MODULE Spec2Model ----
(***************************************************************************)
(* A model of the RCOS portal (portal/models.py, portal/views/auth.py,     *)
(* portal/views/index.py and the schema migrations).                       *)
(*                                                                         *)
(* The database is modelled table by table: every table is a function from *)
(* the primary keys of its rows to a record of the columns the modelled    *)
(* code reads or writes.  Model.save() runs in autocommit mode: the row is *)
(* written before the post_save receivers run, and an exception raised by  *)
(* a receiver does not undo the write.                                     *)
(*                                                                         *)
(* Text that the code takes apart (e-mail addresses, RCS ids) is a         *)
(* sequence of one-character strings; text that is only stored and         *)
(* compared (Discord ids) is a TLA+ string.                                *)
(***************************************************************************)
EXTENDS Integers, Sequences, FiniteSets, Bags, TLC

VARIABLES
    users,        \* portal_user:         pk -> row
    semesters,    \* portal_semester:     pk -> row
    projects,     \* portal_project:      pk -> row
    enrollments,  \* portal_enrollment:   pk -> row
    pitches,      \* portal_projectpitch: pk -> row
    meetings,     \* portal_meeting:      pk -> row
    inst,         \* the Meeting instances that requests have loaded and not saved
                  \* yet, a bag: the columns each keeps as loaded until it saves
    events,       \* the scheduled events that exist on the Discord server
    failed,       \* the meetings a remote call has failed for at least once
    today,        \* timezone.now().date()
    session,      \* request.user of the browser session: a user's pk, or NULL
                  \* for AnonymousUser
    settings,     \* rcos_io.settings: the DEBUG flag
    cache,        \* django.core.cache: key -> the value stored under it
    last          \* the last operation: its inputs, its outcome, what it returned

vars == <<users, semesters, projects, enrollments, pitches, meetings, inst,
          events, failed, today, session, settings, cache, last>>

(***************************************************************************)
(* Bounds of the model.                                                    *)
(***************************************************************************)
MaxUsers == 2

MaxEnrollments == 2

MaxEnrolled == 3

MaxPitches == 3

MaxMeetings == 1

MaxEvents == 2

MaxRequests == 2

MaxDay == 3

MaxOwned == 5

MaxSemesters == 2

MaxProjects == 2

(***************************************************************************)
(* Values of the schema.                                                   *)
(***************************************************************************)
\* A NULL column (null=True); primary keys are positive.
NULL == -1

RPI == "rpi"

EXTERNAL == "external"

\* can_propose_project: "can own a max of 4 at one time".
MAX_OWNED_PROJECTS == 4

\* The suffix pre_save_user looks for: "@rpi.edu".
RPI_SUFFIX == <<"@", "r", "p", "i", ".", "e", "d", "u">>

(***************************************************************************)
(* Tables as functions: insert, update and delete of a row.                *)
(***************************************************************************)
Insert(table, pk, row) == (pk :> row) @@ table

Delete(table, pks) == [k \in (DOMAIN table) \ pks |-> table[k]]

\* The empty table.
NoRows == [k \in {} |-> {}]

(***************************************************************************)
(* str methods, on sequences of one-character strings.                     *)
(***************************************************************************)
UpperToLower ==
    [c \in {"A", "B", "C", "D", "E", "F", "G", "H", "I", "J", "K", "L", "M",
            "N", "O", "P", "Q", "R", "S", "T", "U", "V", "W", "X", "Y", "Z"} |->
        CASE c = "A" -> "a" [] c = "B" -> "b" [] c = "C" -> "c" [] c = "D" -> "d"
          [] c = "E" -> "e" [] c = "F" -> "f" [] c = "G" -> "g" [] c = "H" -> "h"
          [] c = "I" -> "i" [] c = "J" -> "j" [] c = "K" -> "k" [] c = "L" -> "l"
          [] c = "M" -> "m" [] c = "N" -> "n" [] c = "O" -> "o" [] c = "P" -> "p"
          [] c = "Q" -> "q" [] c = "R" -> "r" [] c = "S" -> "s" [] c = "T" -> "t"
          [] c = "U" -> "u" [] c = "V" -> "v" [] c = "W" -> "w" [] c = "X" -> "x"
          [] c = "Y" -> "y" [] c = "Z" -> "z"]

\* str.lower()
str_lower(s) ==
    [i \in 1..Len(s) |-> IF s[i] \in DOMAIN UpperToLower THEN UpperToLower[s[i]] ELSE s[i]]

\* str.endswith(suffix)
endswith(s, suffix) ==
    /\ Len(s) >= Len(suffix)
    /\ SubSeq(s, Len(s) - Len(suffix) + 1, Len(s)) = suffix

\* str.removesuffix(suffix)
removesuffix(s, suffix) ==
    IF Len(suffix) > 0 /\ endswith(s, suffix)
    THEN SubSeq(s, 1, Len(s) - Len(suffix))
    ELSE s

\* str.strip(), of blanks
RECURSIVE lstrip(_)
lstrip(s) == IF Len(s) > 0 /\ Head(s) = " " THEN lstrip(Tail(s)) ELSE s

RECURSIVE rstrip(_)
rstrip(s) ==
    IF Len(s) > 0 /\ s[Len(s)] = " " THEN rstrip(SubSeq(s, 1, Len(s) - 1)) ELSE s

strip(s) == rstrip(lstrip(s))

\* The position of the last "@" of s, 0 when s has none.
LastAt(s) ==
    LET at == {i \in 1..Len(s) : s[i] = "@"}
    IN  IF at = {} THEN 0 ELSE CHOOSE i \in at : \A j \in at : j <= i

\* BaseUserManager.normalize_email: the domain part of the address in lower
\* case; an address without "@" is returned as it is.
normalize_email(email) ==
    LET stripped == strip(email)
        at == LastAt(stripped)
    IN  IF at = 0
        THEN email
        ELSE SubSeq(stripped, 1, at) \o str_lower(SubSeq(stripped, at + 1, Len(stripped)))

(***************************************************************************)
(* Inputs of the operations.                                               *)
(***************************************************************************)
\* "A@rpi.edu", "a@RPI.edu", "b@x.io", "c@x.io" and the empty address.
Emails ==
    { <<"A">> \o RPI_SUFFIX,
      <<"a", "@", "R", "P", "I", ".", "e", "d", "u">>,
      <<"b", "@", "x", ".", "i", "o">>,
      <<"c", "@", "x", ".", "i", "o">>,
      <<>> }

Roles == {RPI, EXTERNAL}

\* The RCS ids a caller passes: none, or "z".
RcsIds == {<<>>, <<"z">>}

GraduationYears == {NULL, 2025}

\* The ids the identity provider knows, "" being an unlinked account.
DiscordUserIds == {"d1", "d2"}

UserPks == 1..MaxUsers

(***************************************************************************)
(* User (models.py).                                                       *)
(***************************************************************************)
\* A new User instance: the fields the caller gives, the defaults of the others.
User(email, role, is_approved, rcs_id, graduation_year, is_superuser) ==
    [email |-> email, role |-> role, is_approved |-> is_approved,
     rcs_id |-> rcs_id, graduation_year |-> graduation_year,
     discord_user_id |-> "", is_active |-> TRUE, is_superuser |-> is_superuser]

\* The primary key an insert into `table` gets.
NewPk(table) ==
    IF DOMAIN table = {} THEN 1
    ELSE 1 + CHOOSE k \in DOMAIN table : \A j \in DOMAIN table : j <= k

\* pre_save_user without the .lower() of the RCS id.
pre_save_user_keeps_case(instance, adding) ==
    IF adding /\ endswith(instance.email, RPI_SUFFIX)
    THEN [instance EXCEPT !.role = RPI,
                          !.is_approved = TRUE,
                          !.rcs_id = removesuffix(instance.email, RPI_SUFFIX)]
    ELSE instance

\* pre_save receiver of User.
pre_save_user(instance, adding) ==
    IF adding /\ endswith(instance.email, RPI_SUFFIX)
    THEN [instance EXCEPT !.role = RPI,
                          !.is_approved = TRUE,
                          !.rcs_id = str_lower(removesuffix(instance.email, RPI_SUFFIX))]
    ELSE instance

\* email = models.EmailField(unique=True): no other row has this address.
email_unique(row, pk) == \A k \in (DOMAIN users) \ {pk} : users[k].email # row.email

\* rcs_id = models.CharField(blank=True, unique=True): no other row has this
\* RCS id, the empty one included.
rcs_id_unique(row, pk) == \A k \in (DOMAIN users) \ {pk} : users[k].rcs_id # row.rcs_id

\* User.clean: what full_clean() would reject.  Model.save() does not call it.
User_clean(instance) == ~(instance.role # RPI /\ instance.graduation_year # NULL)

\* Model.save() of a User: the pre_save receiver, then the INSERT or UPDATE,
\* which the unique indexes may refuse (IntegrityError).
User_save(op, pk, instance, adding) ==
    LET row == pre_save_user(instance, adding)
    IN  IF email_unique(row, pk) /\ rcs_id_unique(row, pk)
        THEN /\ users' = Insert(users, pk, row)
             /\ last' = [op |-> op, pk |-> pk, adding |-> adding, result |-> "ok"]
        ELSE /\ UNCHANGED users
             /\ last' = [op |-> op, pk |-> pk, adding |-> adding,
                         result |-> "IntegrityError"]

\* UserManager._create_user
UserManager_create_user(op, email, role, is_approved, rcs_id, graduation_year, is_superuser) ==
    IF email = <<>>
    THEN /\ UNCHANGED users
         /\ last' = [op |-> op, pk |-> NULL, adding |-> TRUE, result |-> "ValueError"]
    ELSE User_save(op, NewPk(users),
                   User(normalize_email(email), role, is_approved, rcs_id,
                        graduation_year, is_superuser),
                   TRUE)

NotUsers == <<semesters, projects, enrollments, pitches, meetings, inst, events,
              failed, today, session,
              settings, cache>>

\* UserManager.create_user(email, **extra_fields)
create_user(email, role, is_approved, rcs_id, graduation_year) ==
    /\ NewPk(users) <= MaxUsers
    /\ UserManager_create_user("create_user", email, role, is_approved, rcs_id,
                               graduation_year, FALSE)
    /\ UNCHANGED NotUsers

\* UserManager.create_superuser(email, password, is_superuser=...)
create_superuser(email, is_superuser) ==
    /\ NewPk(users) <= MaxUsers
    /\ IF is_superuser # TRUE
       THEN /\ UNCHANGED users
            /\ last' = [op |-> "create_superuser", pk |-> NULL, adding |-> TRUE,
                        result |-> "ValueError"]
       ELSE UserManager_create_user("create_superuser", email, EXTERNAL, FALSE, <<>>,
                                    NULL, TRUE)
    /\ UNCHANGED NotUsers

\* User(email=..., ...).save(): a new instance saved without the manager.
User_save_new(email, role, is_approved, rcs_id, graduation_year) ==
    /\ NewPk(users) <= MaxUsers
    /\ User_save("save_new", NewPk(users),
                 User(email, role, is_approved, rcs_id, graduation_year, FALSE), TRUE)
    /\ UNCHANGED NotUsers

\* The assignments a caller makes to a loaded User before saving it.
UserEdits ==
    ({"email"} \X Emails) \cup ({"role"} \X Roles) \cup ({"is_approved"} \X BOOLEAN)
        \cup ({"rcs_id"} \X RcsIds) \cup ({"graduation_year"} \X GraduationYears)

\* user = User.objects.get(pk=pk); user.<field> = value; user.save()
User_save_existing(pk, field, value) ==
    /\ pk \in DOMAIN users
    /\ User_save("save", pk, [users[pk] EXCEPT ![field] = value], FALSE)
    /\ UNCHANGED NotUsers

(***************************************************************************)
(* views/auth.py: linking a Discord account.                               *)
(***************************************************************************)
\* The ?code= of the callback request: absent, or one the provider issued.
Codes == {"", "c1", "c2"}

\* discord.get_user_info(discord.get_tokens(code)["access_token"])["id"]: the
\* account the provider issued the code for.
discord_get_user_info(code) == IF code = "c1" THEN "d1" ELSE "d2"

\* discord_link_callback storing the id with User.objects.update(...), on every row.
discord_link_callback_every_row(user, code, exchange) ==
    /\ user \in DOMAIN users
    /\ code # ""
    /\ exchange
    /\ users' = [k \in DOMAIN users |->
                    [users[k] EXCEPT !.discord_user_id = discord_get_user_info(code)]]
    /\ last' = [op |-> "discord_link_callback", pk |-> user, code |-> code,
                exchange |-> exchange, contacted |-> TRUE, result |-> "redirect:/"]
    /\ UNCHANGED <<semesters, projects, enrollments, pitches, meetings, inst, events,
                   failed, today, session,
                   settings, cache>>

\* discord_link_callback clearing the stored id before it asks the provider.
discord_link_callback_clear_first(user, code, exchange) ==
    /\ user \in DOMAIN users
    /\ code # ""
    /\ users' = [users EXCEPT ![user].discord_user_id =
                     IF exchange THEN discord_get_user_info(code) ELSE ""]
    /\ last' = [op |-> "discord_link_callback", pk |-> user, code |-> code,
                exchange |-> exchange, contacted |-> TRUE,
                result |-> IF exchange THEN "redirect:/" ELSE "HTTPError"]
    /\ UNCHANGED <<semesters, projects, enrollments, pitches, meetings, inst, events,
                   failed, today, session,
                   settings, cache>>

\* discord_link_callback(request), request.user being `user` (NULL: nobody is
\* logged in).  `exchange` is whether get_tokens and get_user_info succeed;
\* `contacted` records whether the handler got as far as calling them.
discord_link_callback(user, code, exchange) ==
    /\ user \in DOMAIN users \cup {NULL}
    /\ IF user = NULL
       THEN \* @login_required
            /\ UNCHANGED users
            /\ last' = [op |-> "discord_link_callback", pk |-> user, code |-> code,
                        exchange |-> exchange, contacted |-> FALSE,
                        result |-> "redirect:login"]
       ELSE IF code = ""
       THEN \* raise BadRequest
            /\ UNCHANGED users
            /\ last' = [op |-> "discord_link_callback", pk |-> user, code |-> code,
                        exchange |-> exchange, contacted |-> FALSE,
                        result |-> "BadRequest"]
       ELSE IF ~exchange
       THEN \* except HTTPError as error: return error
            /\ UNCHANGED users
            /\ last' = [op |-> "discord_link_callback", pk |-> user, code |-> code,
                        exchange |-> exchange, contacted |-> TRUE,
                        result |-> "HTTPError"]
       ELSE \* request.user.discord_user_id = ...; request.user.save()
            LET row == pre_save_user(
                           [users[user] EXCEPT !.discord_user_id = discord_get_user_info(code)],
                           FALSE)
            IN  /\ users' = Insert(users, user, row)
                /\ last' = [op |-> "discord_link_callback", pk |-> user, code |-> code,
                            exchange |-> exchange, contacted |-> TRUE,
                            result |-> "redirect:/"]
    /\ UNCHANGED NotUsers

(***************************************************************************)
(* views/auth.py: impersonate.                                             *)
(***************************************************************************)
\* The ?email= of an impersonate request: "A@rpi.edu", "b@x.io", "c@x.io".
ImpersonateEmails ==
    { <<"A">> \o RPI_SUFFIX,
      <<"b", "@", "x", ".", "i", "o">>,
      <<"c", "@", "x", ".", "i", "o">> }

\* request.user.is_superuser, which AnonymousUser has as False.
request_user_is_superuser ==
    session # NULL /\ session \in DOMAIN users /\ users[session].is_superuser

\* impersonate without its condition: whoever asks is logged in as the user.
impersonate_anyone(has_email, email) ==
    /\ has_email
    /\ \E k \in DOMAIN users : users[k].email = email
    /\ session' = CHOOSE k \in DOMAIN users : users[k].email = email
    /\ last' = [op |-> "impersonate", pk |-> session, email |-> email,
                has_email |-> has_email, result |-> "redirect:/"]
    /\ UNCHANGED <<users, semesters, projects, enrollments, pitches, meetings, inst,
                   events, failed, today, settings, cache>>

\* impersonate(request); has_email is whether the request has an ?email=.
impersonate(has_email, email) ==
    /\ IF settings.DEBUG \/ request_user_is_superuser
       THEN IF ~has_email
            THEN \* request.GET["email"]
                 /\ UNCHANGED session
                 /\ last' = [op |-> "impersonate", pk |-> session, email |-> email,
                             has_email |-> has_email,
                             result |-> "MultiValueDictKeyError"]
            ELSE IF ~\E k \in DOMAIN users : users[k].email = email
            THEN \* User.objects.get(email=email)
                 /\ UNCHANGED session
                 /\ last' = [op |-> "impersonate", pk |-> session, email |-> email,
                             has_email |-> has_email, result |-> "DoesNotExist"]
            ELSE \* login(request, user, backend=...)
                 /\ session' = CHOOSE k \in DOMAIN users : users[k].email = email
                 /\ last' = [op |-> "impersonate", pk |-> session, email |-> email,
                             has_email |-> has_email, result |-> "redirect:/"]
       ELSE /\ UNCHANGED session
            /\ last' = [op |-> "impersonate", pk |-> session, email |-> email,
                        has_email |-> has_email, result |-> "redirect:/"]
    /\ UNCHANGED <<users, semesters, projects, enrollments, pitches, meetings, inst,
                   events, failed, today, settings, cache>>

(***************************************************************************)
(* The accounts: creation, save, and the Discord link.                     *)
(***************************************************************************)
InitEmpty ==
    /\ users = NoRows
    /\ semesters = NoRows
    /\ projects = NoRows
    /\ enrollments = NoRows
    /\ pitches = NoRows
    /\ meetings = NoRows
    /\ inst = EmptyBag
    /\ events = {}
    /\ failed = {}
    /\ today = 1
    /\ session = NULL
    /\ settings = [DEBUG |-> FALSE]
    /\ cache = NoRows
    /\ last = [op |-> "init"]

NextUser ==
    \/ \E email \in Emails, role \in Roles, is_approved \in BOOLEAN,
          rcs_id \in RcsIds, graduation_year \in GraduationYears :
            create_user(email, role, is_approved, rcs_id, graduation_year)
    \/ \E email \in Emails, is_superuser \in BOOLEAN :
            create_superuser(email, is_superuser)
    \/ \E email \in Emails, role \in Roles, is_approved \in BOOLEAN,
          rcs_id \in RcsIds, graduation_year \in GraduationYears :
            User_save_new(email, role, is_approved, rcs_id, graduation_year)
    \/ \E pk \in UserPks, edit \in UserEdits :
            User_save_existing(pk, edit[1], edit[2])

SpecUser == InitEmpty /\ [][NextUser]_vars

(***************************************************************************)
(* The views of views/auth.py, on a database that holds accounts.          *)
(***************************************************************************)
InitLink ==
    /\ \E d1 \in DiscordUserIds \cup {""}, d2 \in DiscordUserIds \cup {""},
          approved \in BOOLEAN, super \in BOOLEAN :
            users = (1 :> [pre_save_user(User(<<"A">> \o RPI_SUFFIX, EXTERNAL, FALSE,
                                              <<>>, NULL, super), TRUE)
                              EXCEPT !.discord_user_id = d1])
                    @@ (2 :> [User(<<"b", "@", "x", ".", "i", "o">>, EXTERNAL, approved,
                                   <<>>, NULL, FALSE)
                                 EXCEPT !.discord_user_id = d2])
    /\ semesters = NoRows
    /\ projects = NoRows
    /\ enrollments = NoRows
    /\ pitches = NoRows
    /\ meetings = NoRows
    /\ inst = EmptyBag
    /\ events = {}
    /\ failed = {}
    /\ today = 1
    /\ session \in (DOMAIN users) \cup {NULL}
    /\ settings \in [DEBUG : BOOLEAN]
    /\ cache = NoRows
    /\ last = [op |-> "init"]

NextLink ==
    \/ \E code \in Codes, exchange \in BOOLEAN :
            discord_link_callback(session, code, exchange)
    \/ \E has_email \in BOOLEAN, email \in ImpersonateEmails :
            impersonate(has_email, email)

SpecLink == InitLink /\ [][NextLink]_vars

(***************************************************************************)
(* Meeting (models.py) and its Discord event.                              *)
(***************************************************************************)
\* The ids the Discord server gives the events it creates, in this order.
EventNames == <<"e1", "e2", "e3", "e4", "e5", "e6">>

\* The titles a caller gives a meeting.
MeetingNames == {"n1", "n2"}

\* Whether the remote calls of a save return ("ok") or raise ("fail"); a save
\* makes at most two calls, and none after one that raised.
Outcomes == {<<"ok", "ok">>, <<"ok", "fail">>, <<"fail", "fail">>}

MeetingPks == 1..MaxMeetings

\* A Meeting instance: discord_event_id is blank ("") unless given.
Meeting(semester, is_published, name, discord_event_id) ==
    [semester |-> semester, host |-> NULL, is_published |-> is_published,
     name |-> name, discord_event_id |-> discord_event_id]

\* discord.create_server_event(...): the event the server creates and returns.
create_server_event(server) == EventNames[Cardinality(server) + 1]

RECURSIVE Meeting_save(_)
RECURSIVE sync_discord_event(_)

\* sync_discord_event that updates the remote event of an unpublished meeting too.
sync_discord_event_unpublished_too(w) ==
    IF w.self.discord_event_id = "" /\ w.self.is_published
    THEN IF Head(w.outcomes) = "fail"
         THEN [w EXCEPT !.calls = Append(@, [call |-> "create", id |-> "", ok |-> FALSE]),
                        !.raised = TRUE]
         ELSE LET event == create_server_event(w.server)
              IN  Meeting_save([w EXCEPT
                      !.calls = Append(@, [call |-> "create", id |-> event, ok |-> TRUE]),
                      !.server = @ \cup {event},
                      !.outcomes = Tail(@),
                      !.self.discord_event_id = event])
    ELSE IF w.self.discord_event_id # ""
    THEN IF Head(w.outcomes) = "fail"
         THEN [w EXCEPT !.calls = Append(@, [call |-> "update",
                                             id |-> w.self.discord_event_id, ok |-> FALSE]),
                        !.raised = TRUE]
         ELSE [w EXCEPT !.calls = Append(@, [call |-> "update",
                                             id |-> w.self.discord_event_id, ok |-> TRUE]),
                        !.outcomes = Tail(@)]
    ELSE w

\* sync_discord_event that keeps the created event's id in memory only: no self.save().
sync_discord_event_no_save(w) ==
    IF w.self.discord_event_id = "" /\ w.self.is_published
    THEN IF Head(w.outcomes) = "fail"
         THEN [w EXCEPT !.calls = Append(@, [call |-> "create", id |-> "", ok |-> FALSE]),
                        !.raised = TRUE]
         ELSE LET event == create_server_event(w.server)
              IN  [w EXCEPT
                      !.calls = Append(@, [call |-> "create", id |-> event, ok |-> TRUE]),
                      !.server = @ \cup {event},
                      !.outcomes = Tail(@),
                      !.self.discord_event_id = event]
    ELSE IF w.self.discord_event_id # "" /\ w.self.is_published
    THEN IF Head(w.outcomes) = "fail"
         THEN [w EXCEPT !.calls = Append(@, [call |-> "update",
                                             id |-> w.self.discord_event_id, ok |-> FALSE]),
                        !.raised = TRUE]
         ELSE [w EXCEPT !.calls = Append(@, [call |-> "update",
                                             id |-> w.self.discord_event_id, ok |-> TRUE]),
                        !.outcomes = Tail(@)]
    ELSE w

\* sync_discord_event that saves the instance twice after creating the event.
sync_discord_event_saves_twice(w) ==
    IF w.self.discord_event_id = "" /\ w.self.is_published
    THEN IF Head(w.outcomes) = "fail"
         THEN [w EXCEPT !.calls = Append(@, [call |-> "create", id |-> "", ok |-> FALSE]),
                        !.raised = TRUE]
         ELSE LET event == create_server_event(w.server)
                  once == Meeting_save([w EXCEPT
                      !.calls = Append(@, [call |-> "create", id |-> event, ok |-> TRUE]),
                      !.server = @ \cup {event},
                      !.outcomes = Tail(@),
                      !.self.discord_event_id = event])
              IN  IF once.raised THEN once
                  ELSE Meeting_save([once EXCEPT !.outcomes = <<"ok">>])
    ELSE IF w.self.discord_event_id # "" /\ w.self.is_published
    THEN IF Head(w.outcomes) = "fail"
         THEN [w EXCEPT !.calls = Append(@, [call |-> "update",
                                             id |-> w.self.discord_event_id, ok |-> FALSE]),
                        !.raised = TRUE]
         ELSE [w EXCEPT !.calls = Append(@, [call |-> "update",
                                             id |-> w.self.discord_event_id, ok |-> TRUE]),
                        !.outcomes = Tail(@)]
    ELSE w

\* Meeting.sync_discord_event.  w is the run of one save(): self, the instance;
\* row, what the meeting's row holds; saves, how many times save() has been
\* entered; server, the events on the Discord server; calls, the remote calls
\* made so far; outcomes, how the next calls end; raised, whether an exception
\* is propagating.
sync_discord_event(w) ==
    IF w.self.discord_event_id = "" /\ w.self.is_published
    THEN IF Head(w.outcomes) = "fail"
         THEN [w EXCEPT !.calls = Append(@, [call |-> "create", id |-> "", ok |-> FALSE]),
                        !.raised = TRUE]
         ELSE LET event == create_server_event(w.server)
              IN  Meeting_save([w EXCEPT
                      !.calls = Append(@, [call |-> "create", id |-> event, ok |-> TRUE]),
                      !.server = @ \cup {event},
                      !.outcomes = Tail(@),
                      !.self.discord_event_id = event])
    ELSE IF w.self.discord_event_id # "" /\ w.self.is_published
    THEN IF Head(w.outcomes) = "fail"
         THEN [w EXCEPT !.calls = Append(@, [call |-> "update",
                                             id |-> w.self.discord_event_id, ok |-> FALSE]),
                        !.raised = TRUE]
         ELSE [w EXCEPT !.calls = Append(@, [call |-> "update",
                                             id |-> w.self.discord_event_id, ok |-> TRUE]),
                        !.outcomes = Tail(@)]
    ELSE w

\* The receiver connected to pre_save: it runs before the row is written, and
\* the row is not written when it raises.
Meeting_save_sync_first(w) ==
    LET synced == sync_discord_event(w)
    IN  IF synced.raised THEN synced
        ELSE [synced EXCEPT !.row = synced.self, !.written = TRUE]

\* Model.save() of a Meeting: the row is written, then the post_save receiver
\* sync_meeting_with_discord_event_on_save runs.
Meeting_save(w) ==
    sync_discord_event([w EXCEPT !.row = w.self, !.written = TRUE, !.saves = @ + 1])

\* One call of instance.save() by a request, and what it leaves behind.
Meeting_saved(op, pk, instance, outcomes) ==
    LET w == Meeting_save([self |-> instance, row |-> instance, written |-> FALSE,
                           saves |-> 0, server |-> events, calls |-> <<>>,
                           outcomes |-> <<outcomes[1], outcomes[2]>>, raised |-> FALSE])
    IN  /\ Cardinality(w.server) <= MaxEvents
        /\ meetings' = IF w.written THEN Insert(meetings, pk, w.row) ELSE meetings
        /\ events' = w.server
        /\ failed' = IF w.raised THEN failed \cup {pk} ELSE failed
        /\ last' = [op |-> op, pk |-> pk, before |-> instance, calls |-> w.calls,
                    saves |-> w.saves, raised |-> w.raised, had_failed |-> pk \in failed]

NotMeetings == <<users, semesters, projects, enrollments, pitches, today, session,
                 settings, cache>>

\* Meeting.objects.create(semester=..., is_published=..., name=...)
Meeting_create(semester, is_published, name, outcomes) ==
    /\ NewPk(meetings) <= MaxMeetings
    /\ semester \in DOMAIN semesters
    /\ Meeting_saved("Meeting.create", NewPk(meetings),
                     Meeting(semester, is_published, name, ""), outcomes)
    /\ UNCHANGED <<inst, NotMeetings>>

\* meeting = Meeting.objects.get(pk=pk), in one more request
Meeting_get(pk) ==
    /\ BagCardinality(inst) < MaxRequests
    /\ pk \in DOMAIN meetings
    /\ inst' = inst (+) SetToBag({[pk |-> pk, semester |-> meetings[pk].semester,
                                   discord_event_id |-> meetings[pk].discord_event_id]})
    /\ last' = [op |-> "Meeting.get", pk |-> pk]
    /\ UNCHANGED <<meetings, events, failed, NotMeetings>>

\* meeting.is_published = ...; meeting.name = ...; meeting.save(), which ends the
\* request that had loaded the instance `self`
Meeting_edit_save(self, is_published, name, outcomes) ==
    /\ BagIn(self, inst)
    /\ Meeting_saved("Meeting.save", self.pk,
                     Meeting(self.semester, is_published, name, self.discord_event_id),
                     outcomes)
    /\ inst' = inst (-) SetToBag({self})
    /\ UNCHANGED NotMeetings

InitMeeting ==
    /\ users = NoRows
    /\ semesters = (1 :> [start_date |-> 1, end_date |-> MaxDay,
                          is_accepting_new_projects |-> FALSE])
    /\ projects = NoRows
    /\ enrollments = NoRows
    /\ pitches = NoRows
    /\ meetings = NoRows
    /\ inst = EmptyBag
    /\ events = {}
    /\ failed = {}
    /\ today = 1
    /\ session = NULL
    /\ settings = [DEBUG |-> FALSE]
    /\ cache = NoRows
    /\ last = [op |-> "init"]

NextMeeting ==
    \/ \E is_published \in BOOLEAN, name \in MeetingNames, outcomes \in Outcomes :
            Meeting_create(1, is_published, name, outcomes)
    \/ \E pk \in MeetingPks : Meeting_get(pk)
    \/ \E self \in BagToSet(inst), is_published \in BOOLEAN, name \in MeetingNames,
          outcomes \in Outcomes :
            Meeting_edit_save(self, is_published, name, outcomes)

SpecMeeting == InitMeeting /\ [][NextMeeting]_vars

(***************************************************************************)
(* Enrollment and ProjectPitch (models.py, migration 0003): the rows and   *)
(* their unique indexes.                                                   *)
(***************************************************************************)
SemesterPks == 1..MaxSemesters

ProjectPks == 1..MaxProjects

EnrollmentPks == 1..MaxEnrollments

PitchPks == 1..MaxPitches

\* The local parts of the addresses of the accounts a populated database holds.
LocalParts == <<"a", "b", "c", "d", "e", "f">>

\* A database of MaxUsers accounts, each made by create_user(<letter>@rpi.edu).
SomeUsers ==
    [pk \in UserPks |->
        pre_save_user(User(<<LocalParts[pk]>> \o RPI_SUFFIX, EXTERNAL, FALSE, <<>>,
                           NULL, FALSE), TRUE)]

\* A Semester that lasts from day 1 to day MaxDay.
Semester(is_accepting_new_projects) ==
    [start_date |-> 1, end_date |-> MaxDay,
     is_accepting_new_projects |-> is_accepting_new_projects]

SomeSemesters == [pk \in SemesterPks |-> Semester(FALSE)]

Project(owner) == [owner |-> owner]

\* An Enrollment instance: the fields the caller gives, the defaults of the others.
Enrollment(semester, user, project) ==
    [semester |-> semester, user |-> user, project |-> project, credits |-> 0,
     is_project_lead |-> FALSE, is_coordinator |-> FALSE, is_faculty_advisor |-> FALSE]

ProjectPitch(semester, project) == [semester |-> semester, project |-> project]

\* No unique index on portal_enrollment.
Enrollment_unique_none(row, pk) == TRUE

\* Enrollment.Meta.unique_together = ("semester", "user"): no other row has
\* this semester and this user.
Enrollment_unique(row, pk) ==
    \A k \in (DOMAIN enrollments) \ {pk} :
        ~(enrollments[k].semester = row.semester /\ enrollments[k].user = row.user)

\* No unique index on portal_projectpitch, as in ProjectPitch of models.py.
ProjectPitch_unique_none(row, pk) == TRUE

\* migrations.AlterUniqueTogether(name="projectpitch",
\* unique_together={("semester", "project")}): no other row has this semester
\* and this project.
ProjectPitch_unique(row, pk) ==
    \A k \in (DOMAIN pitches) \ {pk} :
        ~(pitches[k].semester = row.semester /\ pitches[k].project = row.project)

NotEnrollments == <<users, semesters, projects, pitches, meetings, inst, events,
                    failed, today, session,
                    settings, cache>>

\* The INSERT or UPDATE of an Enrollment row, which the unique index may refuse.
Enrollment_write(op, pk, row) ==
    /\ IF Enrollment_unique(row, pk)
       THEN /\ enrollments' = Insert(enrollments, pk, row)
            /\ last' = [op |-> op, pk |-> pk, row |-> row, result |-> "ok"]
       ELSE /\ UNCHANGED enrollments
            /\ last' = [op |-> op, pk |-> pk, row |-> row, result |-> "IntegrityError"]
    /\ UNCHANGED NotEnrollments

\* Enrollment.objects.create(semester=..., user=..., project=...)
Enrollment_create(semester, user, project) ==
    /\ NewPk(enrollments) <= MaxEnrollments
    /\ semester \in DOMAIN semesters
    /\ user \in DOMAIN users
    /\ project \in DOMAIN projects \cup {NULL}
    /\ Enrollment_write("Enrollment.create", NewPk(enrollments),
                        Enrollment(semester, user, project))

\* enrollment = Enrollment.objects.get(pk=pk); enrollment.<fields> = ...; enrollment.save()
Enrollment_save(pk, semester, user, project) ==
    /\ pk \in DOMAIN enrollments
    /\ semester \in DOMAIN semesters
    /\ user \in DOMAIN users
    /\ project \in DOMAIN projects \cup {NULL}
    /\ Enrollment_write("Enrollment.save", pk,
                        [enrollments[pk] EXCEPT !.semester = semester, !.user = user,
                                                !.project = project])

\* Enrollment.objects.get(pk=pk).delete()
Enrollment_delete(pk) ==
    /\ pk \in DOMAIN enrollments
    /\ enrollments' = Delete(enrollments, {pk})
    /\ last' = [op |-> "Enrollment.delete", pk |-> pk, row |-> enrollments[pk],
                result |-> "ok"]
    /\ UNCHANGED NotEnrollments

NotPitches == <<users, semesters, projects, enrollments, meetings, inst, events,
                failed, today, session,
                settings, cache>>

\* The INSERT or UPDATE of a ProjectPitch row, which the unique index may refuse.
ProjectPitch_write(op, pk, row) ==
    /\ IF ProjectPitch_unique(row, pk)
       THEN /\ pitches' = Insert(pitches, pk, row)
            /\ last' = [op |-> op, pk |-> pk, row |-> row, result |-> "ok"]
       ELSE /\ UNCHANGED pitches
            /\ last' = [op |-> op, pk |-> pk, row |-> row, result |-> "IntegrityError"]
    /\ UNCHANGED NotPitches

\* ProjectPitch.objects.create(semester=..., project=...)
ProjectPitch_create(semester, project) ==
    /\ NewPk(pitches) <= MaxPitches
    /\ semester \in DOMAIN semesters
    /\ project \in DOMAIN projects
    /\ ProjectPitch_write("ProjectPitch.create", NewPk(pitches),
                          ProjectPitch(semester, project))

\* pitch = ProjectPitch.objects.get(pk=pk); pitch.<fields> = ...; pitch.save()
ProjectPitch_save(pk, semester, project) ==
    /\ pk \in DOMAIN pitches
    /\ semester \in DOMAIN semesters
    /\ project \in DOMAIN projects
    /\ ProjectPitch_write("ProjectPitch.save", pk, ProjectPitch(semester, project))

\* ProjectPitch.objects.get(pk=pk).delete()
ProjectPitch_delete(pk) ==
    /\ pk \in DOMAIN pitches
    /\ pitches' = Delete(pitches, {pk})
    /\ last' = [op |-> "ProjectPitch.delete", pk |-> pk, row |-> pitches[pk],
                result |-> "ok"]
    /\ UNCHANGED NotPitches

\* Project.is_seeking_members(semester): the pitches .first() chooses among.
is_seeking_members(project, semester) ==
    {k \in DOMAIN pitches :
        pitches[k].semester = semester /\ pitches[k].project = project}

\* A database with accounts, semesters and projects, and no enrollment or pitch.
InitRows ==
    /\ users = SomeUsers
    /\ semesters = SomeSemesters
    /\ projects = [pk \in ProjectPks |-> Project(NULL)]
    /\ enrollments = NoRows
    /\ pitches = NoRows
    /\ meetings = NoRows
    /\ inst = EmptyBag
    /\ events = {}
    /\ failed = {}
    /\ today = 1
    /\ session = NULL
    /\ settings = [DEBUG |-> FALSE]
    /\ cache = NoRows
    /\ last = [op |-> "init"]

\* The project of the enrollments made: none, or project 1.
EnrollmentProjects == {NULL, 1}

NextEnroll ==
    \/ \E semester \in SemesterPks, user \in UserPks, project \in EnrollmentProjects :
            Enrollment_create(semester, user, project)
    \/ \E pk \in EnrollmentPks, semester \in SemesterPks, user \in UserPks,
          project \in EnrollmentProjects :
            Enrollment_save(pk, semester, user, project)
    \/ \E pk \in EnrollmentPks : Enrollment_delete(pk)

SpecEnroll == InitRows /\ [][NextEnroll]_vars

NextPitch ==
    \/ \E semester \in SemesterPks, project \in ProjectPks :
            ProjectPitch_create(semester, project)
    \/ \E pk \in PitchPks, semester \in SemesterPks, project \in ProjectPks :
            ProjectPitch_save(pk, semester, project)
    \/ \E pk \in PitchPks : ProjectPitch_delete(pk)

SpecPitch == InitRows /\ [][NextPitch]_vars

(***************************************************************************)
(* Deletion: what on_delete makes of the rows that refer to a deleted row. *)
(***************************************************************************)
\* The rows of `table` whose column `fk` refers to row pk.
Referring(table, fk, pk) == {k \in DOMAIN table : table[k][fk] = pk}

\* on_delete=models.CASCADE: the rows that refer to row pk are deleted.
CASCADE(table, fk, pk) == Delete(table, Referring(table, fk, pk))

\* on_delete=models.SET_NULL: the rows that refer to row pk refer to nothing.
SET_NULL(table, fk, pk) ==
    [k \in DOMAIN table |->
        IF table[k][fk] = pk THEN [table[k] EXCEPT ![fk] = NULL] ELSE table[k]]

NotRows == <<inst, events, failed, today, session, settings, cache>>

\* User.delete() with Project.owner declared on_delete=models.CASCADE.
User_delete_cascade_owned(pk) ==
    /\ pk \in DOMAIN users
    /\ users' = Delete(users, {pk})
    /\ enrollments' = CASCADE(enrollments, "user", pk)
    /\ LET owned == Referring(projects, "owner", pk)
       IN  /\ projects' = Delete(projects, owned)
           /\ pitches' = Delete(pitches, {k \in DOMAIN pitches : pitches[k].project \in owned})
    /\ meetings' = SET_NULL(meetings, "host", pk)
    /\ last' = [op |-> "User.delete", pk |-> pk,
                deleted |-> Referring(enrollments, "user", pk),
                nulled |-> {}]
    /\ UNCHANGED <<semesters, NotRows>>

\* User.objects.get(pk=pk).delete(): Enrollment.user cascades, Project.owner and
\* Meeting.host are set to NULL.
User_delete(pk) ==
    /\ pk \in DOMAIN users
    /\ users' = Delete(users, {pk})
    /\ enrollments' = CASCADE(enrollments, "user", pk)
    /\ projects' = SET_NULL(projects, "owner", pk)
    /\ meetings' = SET_NULL(meetings, "host", pk)
    /\ last' = [op |-> "User.delete", pk |-> pk,
                deleted |-> Referring(enrollments, "user", pk),
                nulled |-> Referring(projects, "owner", pk)]
    /\ UNCHANGED <<semesters, pitches, NotRows>>

\* Semester.objects.get(pk=pk).delete(): Enrollment.semester, ProjectPitch.semester
\* and Meeting.semester cascade.
Semester_delete(pk) ==
    /\ pk \in DOMAIN semesters
    /\ semesters' = Delete(semesters, {pk})
    /\ enrollments' = CASCADE(enrollments, "semester", pk)
    /\ pitches' = CASCADE(pitches, "semester", pk)
    /\ meetings' = CASCADE(meetings, "semester", pk)
    /\ last' = [op |-> "Semester.delete", pk |-> pk,
                deleted |-> Referring(enrollments, "semester", pk),
                nulled |-> {}]
    /\ UNCHANGED <<users, projects, NotRows>>

\* Project.objects.get(pk=pk).delete(): ProjectPitch.project cascades,
\* Enrollment.project is set to NULL.
Project_delete(pk) ==
    /\ pk \in DOMAIN projects
    /\ projects' = Delete(projects, {pk})
    /\ enrollments' = SET_NULL(enrollments, "project", pk)
    /\ pitches' = CASCADE(pitches, "project", pk)
    /\ last' = [op |-> "Project.delete", pk |-> pk,
                deleted |-> {},
                nulled |-> Referring(enrollments, "project", pk)]
    /\ UNCHANGED <<users, semesters, meetings, NotRows>>

\* The semester and the user of the k-th enrollment of a populated database:
\* (1, 1), (1, 2), ..., (2, 1), ...
KthSemester(k) == ((k - 1) \div MaxUsers) + 1

KthUser(k) == ((k - 1) % MaxUsers) + 1

\* A populated database: accounts, semesters, projects with any owner, enrollments
\* in any project or none, a pitch of each project, a meeting with any host.
InitDelete ==
    /\ users = SomeUsers
    /\ semesters = SomeSemesters
    /\ projects \in [ProjectPks -> {Project(owner) : owner \in UserPks \cup {NULL}}]
    /\ \E of \in [{k \in 1..MaxEnrolled : KthSemester(k) \in SemesterPks}
                    -> ProjectPks \cup {NULL}] :
            enrollments = [k \in DOMAIN of |->
                              Enrollment(KthSemester(k), KthUser(k), of[k])]
    /\ pitches = [k \in {j \in PitchPks : j \in ProjectPks} |-> ProjectPitch(1, k)]
    /\ \E host \in UserPks \cup {NULL} :
            meetings = [k \in MeetingPks |-> [Meeting(1, FALSE, "n1", "") EXCEPT !.host = host]]
    /\ inst = EmptyBag
    /\ events = {}
    /\ failed = {}
    /\ today = 1
    /\ session = NULL
    /\ settings = [DEBUG |-> FALSE]
    /\ cache = NoRows
    /\ last = [op |-> "init"]

NextDelete ==
    \/ \E pk \in UserPks : User_delete(pk)
    \/ \E pk \in SemesterPks : Semester_delete(pk)
    \/ \E pk \in ProjectPks : Project_delete(pk)

SpecDelete == InitDelete /\ [][NextDelete]_vars

(***************************************************************************)
(* User.can_propose_project (models.py).                                   *)
(***************************************************************************)
\* Semester.is_active
Semester_is_active(semester) ==
    semester.start_date <= today /\ today <= semester.end_date

\* user.owned_projects: the projects whose owner is the user.
owned_projects(user) == {k \in DOMAIN projects : projects[k].owner = user}

\* can_propose_project that lets a user with 4 projects propose a fifth (> for >=).
can_propose_project_one_more(user, semester) ==
    IF ~users[user].is_approved \/ ~users[user].is_active
    THEN "False"
    ELSE IF \/ semester = NULL
            \/ ~Semester_is_active(semesters[semester])
            \/ ~semesters[semester].is_accepting_new_projects
    THEN "False"
    ELSE IF Cardinality(owned_projects(user)) > MAX_OWNED_PROJECTS
    THEN "False"
    ELSE LET found == {k \in DOMAIN enrollments :
                          enrollments[k].user = user /\ enrollments[k].semester = semester}
         IN  IF found = {} THEN "True"
             ELSE IF Cardinality(found) > 1 THEN "MultipleObjectsReturned"
             ELSE IF enrollments[CHOOSE k \in found : TRUE].project # NULL THEN "False"
             ELSE "True"

\* User.can_propose_project(semester), semester being a row or None (NULL):
\* "True", "False", or the exception Enrollment.objects.get() raises.
can_propose_project(user, semester) ==
    IF ~users[user].is_approved \/ ~users[user].is_active
    THEN "False"
    ELSE IF \/ semester = NULL
            \/ ~Semester_is_active(semesters[semester])
            \/ ~semesters[semester].is_accepting_new_projects
    THEN "False"
    ELSE IF Cardinality(owned_projects(user)) >= MAX_OWNED_PROJECTS
    THEN "False"
    ELSE LET found == {k \in DOMAIN enrollments :
                          enrollments[k].user = user /\ enrollments[k].semester = semester}
         IN  IF found = {} THEN "True"
             ELSE IF Cardinality(found) > 1 THEN "MultipleObjectsReturned"
             ELSE IF enrollments[CHOOSE k \in found : TRUE].project # NULL THEN "False"
             ELSE "True"

\* A call of user.can_propose_project(semester).
Propose(user, semester) ==
    /\ user \in DOMAIN users
    /\ semester \in DOMAIN semesters \cup {NULL}
    /\ last' = [op |-> "can_propose_project", user |-> user, semester |-> semester,
                result |-> can_propose_project(user, semester)]
    /\ UNCHANGED <<users, semesters, projects, enrollments, pitches, meetings, inst,
                   events, failed, today, session, settings, cache>>

\* A day passes.
NextDay ==
    /\ today < MaxDay
    /\ today' = today + 1
    /\ last' = [op |-> "day"]
    /\ UNCHANGED <<users, semesters, projects, enrollments, pitches, meetings, inst,
                   events, failed, session, settings, cache>>

\* The databases can_propose_project is called on.  User 1 is approved or not,
\* active or not, and owns 0..MaxOwned projects; user 2 owns one more project.
\* Semester 1 runs from day 1 or day 2 to day 2 and accepts projects or not;
\* the other semesters run every day and accept projects.  User 1 is enrolled
\* in semester 1, in semester 2, or in neither, with user 2's project or with
\* none; user 2 is enrolled in semester 1 with a project, or not at all.
InitPropose ==
    /\ \E is_approved \in BOOLEAN, is_active \in BOOLEAN :
            users = [pk \in UserPks |->
                        IF pk = 1
                        THEN [SomeUsers[pk] EXCEPT !.is_approved = is_approved,
                                                   !.is_active = is_active]
                        ELSE SomeUsers[pk]]
    /\ \E start_date \in {1, 2}, is_accepting_new_projects \in BOOLEAN :
            semesters = [pk \in SemesterPks |->
                            IF pk = 1
                            THEN [start_date |-> start_date, end_date |-> 2,
                                  is_accepting_new_projects |-> is_accepting_new_projects]
                            ELSE Semester(TRUE)]
    /\ \E owned \in 0..MaxOwned :
            projects = [pk \in 1..(owned + 1) |-> Project(IF pk <= owned THEN 1 ELSE 2)]
    /\ \E mine \in {NULL} \cup SemesterPks, with \in BOOLEAN, other \in BOOLEAN :
            LET project == CHOOSE k \in DOMAIN projects : projects[k].owner = 2
                first == IF mine = NULL THEN NoRows
                         ELSE (1 :> Enrollment(mine, 1, IF with THEN project ELSE NULL))
            IN  enrollments =
                    IF other THEN Insert(first, NewPk(first), Enrollment(1, 2, project))
                    ELSE first
    /\ pitches = NoRows
    /\ meetings = NoRows
    /\ inst = EmptyBag
    /\ events = {}
    /\ failed = {}
    /\ today = 1
    /\ session = NULL
    /\ settings = [DEBUG |-> FALSE]
    /\ cache = NoRows
    /\ last = [op |-> "init"]

NextPropose ==
    \/ \E user \in UserPks, semester \in SemesterPks \cup {NULL} : Propose(user, semester)
    \/ NextDay

SpecPropose == InitPropose /\ [][NextPropose]_vars

(***************************************************************************)
(* views/index.py: IndexView, and the cache it reads.                      *)
(***************************************************************************)
\* The keys IndexView stores its statistics under.
StatKeys == {"enrollment_count", "project_count", "active_semester_admins"}

\* cache.get(key): the value stored under the key, None when there is none.
cache_get(c, key) == IF key \in DOMAIN c THEN c[key] ELSE NULL

\* cache.get_or_set that stores the default whether or not the key is present.
cache_get_or_set_overwrite(c, key, default) ==
    [cache |-> Insert(c, key, default), value |-> default]

\* cache.get_or_set(key, default, timeout): the value stored under the key; when
\* there is none, the default is stored under the key and returned.  The cache
\* after the call, and the value returned.
cache_get_or_set(c, key, default) ==
    IF key \in DOMAIN c
    THEN [cache |-> c, value |-> c[key]]
    ELSE [cache |-> Insert(c, key, default), value |-> default]

\* Enrollment.objects.filter(Q(is_faculty_advisor=True) | Q(is_coordinator=True),
\* semester=active_semester); semester=None matches no row.
active_semester_admins(active_semester) ==
    {k \in DOMAIN enrollments :
        /\ enrollments[k].is_faculty_advisor \/ enrollments[k].is_coordinator
        /\ active_semester # NULL
        /\ enrollments[k].semester = active_semester}

\* request.user.enrollments.filter(semester=active_semester).first()
user_enrollment(user, active_semester) ==
    LET mine == {k \in DOMAIN enrollments :
                    enrollments[k].user = user /\ enrollments[k].semester = active_semester}
    IN  IF mine = {} THEN NULL ELSE CHOOSE k \in mine : \A j \in mine : k <= j

\* ORDER BY is_project_lead DESC, credits DESC, user.first_name DESC: whether
\* row a is listed before row b.  first_name is "" for every account here, so
\* it orders nothing.
listed_before(a, b) ==
    \/ enrollments[a].is_project_lead /\ ~enrollments[b].is_project_lead
    \/ /\ enrollments[a].is_project_lead = enrollments[b].is_project_lead
       /\ enrollments[a].credits > enrollments[b].credits

\* enrollment.project.enrollments.filter(semester=active_semester)
\*     .order_by("-is_project_lead", "-credits", "-user__first_name"): the
\* listings the database may answer with, rows that tie being in any order.
project_team_enrollments(enrollment, active_semester) ==
    LET team == {k \in DOMAIN enrollments :
                    /\ enrollments[k].project = enrollments[enrollment].project
                    /\ enrollments[k].semester = active_semester}
    IN  {q \in [1..Cardinality(team) -> team] :
            /\ \A i, j \in DOMAIN q : i # j => q[i] # q[j]
            /\ \A i, j \in DOMAIN q : i < j => ~listed_before(q[j], q[i])}

NotCache == <<users, semesters, projects, enrollments, pitches, meetings, inst,
              events, failed, today, session, settings>>

\* IndexView.get_context_data, request.user being `user` (NULL: AnonymousUser).
IndexView_get_context_data(user) ==
    /\ user \in DOMAIN users \cup {NULL}
    /\ LET active_semester == cache_get(cache, "active_semester")
       IN  IF user # NULL
           THEN \* self.request.user.is_authenticated
                LET enrollment == IF active_semester # NULL
                                  THEN user_enrollment(user, active_semester)
                                  ELSE NULL
                IN  /\ \E team \in (IF enrollment # NULL /\ enrollments[enrollment].project # NULL
                                     THEN project_team_enrollments(enrollment, active_semester)
                                     ELSE {<<>>}) :
                          last' = [op |-> "IndexView", user |-> user,
                                   active_semester |-> active_semester,
                                   reads |-> {"active_semester"},
                                   data |-> [enrollment |-> enrollment,
                                             project_team_enrollments |-> team]]
                    /\ UNCHANGED cache
           ELSE LET e == cache_get_or_set(cache, "enrollment_count",
                                          Cardinality(DOMAIN enrollments))
                    p == cache_get_or_set(e.cache, "project_count",
                                          Cardinality(DOMAIN projects))
                    a == cache_get_or_set(p.cache, "active_semester_admins",
                                          active_semester_admins(active_semester))
                IN  /\ cache' = a.cache
                    /\ last' = [op |-> "IndexView", user |-> user,
                                active_semester |-> active_semester,
                                reads |-> {"active_semester"} \cup StatKeys,
                                data |-> [ongoing_meeting |-> NULL,
                                          enrollment_count |-> e.value,
                                          project_count |-> p.value,
                                          active_semester_admins |-> a.value]]
    /\ UNCHANGED NotCache

\* The timeout of 60 * 60 * 24 seconds that a statistic is stored with has passed.
cache_expire(key) ==
    /\ key \in DOMAIN cache
    /\ cache' = [k \in (DOMAIN cache) \ {key} |-> cache[k]]
    /\ last' = [op |-> "cache.expire", key |-> key]
    /\ UNCHANGED NotCache

\* A database of two accounts, two semesters and two projects, with one
\* enrollment; the active semester is in the cache, or is not.
InitIndex ==
    /\ users = [pk \in {1, 2} |-> SomeUsers[pk]]
    /\ semesters = [pk \in {1, 2} |-> Semester(FALSE)]
    /\ projects = [pk \in {1, 2} |-> Project(NULL)]
    /\ \E is_coordinator \in BOOLEAN, is_project_lead \in BOOLEAN :
            enrollments = (1 :> [Enrollment(1, 1, 1) EXCEPT
                                    !.is_coordinator = is_coordinator,
                                    !.is_project_lead = is_project_lead])
    /\ pitches = NoRows
    /\ meetings = NoRows
    /\ inst = EmptyBag
    /\ events = {}
    /\ failed = {}
    /\ today = 1
    /\ session = NULL
    /\ settings = [DEBUG |-> FALSE]
    /\ \E active_semester \in (DOMAIN semesters) \cup {NULL} :
            cache = IF active_semester = NULL THEN NoRows
                    ELSE ("active_semester" :> active_semester)
    /\ last = [op |-> "init"]

NextIndex ==
    \/ \E user \in (DOMAIN users) \cup {NULL} : IndexView_get_context_data(user)
    \/ \E key \in StatKeys : cache_expire(key)
    \/ \E semester \in DOMAIN semesters, user \in DOMAIN users,
          project \in EnrollmentProjects :
            Enrollment_create(semester, user, project)
    \/ \E pk \in DOMAIN enrollments : Enrollment_delete(pk)
    \/ \E pk \in DOMAIN projects : Project_delete(pk)

SpecIndex == InitIndex /\ [][NextIndex]_vars

(***************************************************************************)
(* The claims about the accounts.                                          *)
(***************************************************************************)
\* The User row the last operation wrote, if it wrote one.
Written(pk) ==
    /\ last.op \in {"create_user", "create_superuser", "save_new", "save"}
    /\ last.result = "ok"
    /\ last.pk = pk

\* What pre_save_user is to have made of a row whose address ends in "@rpi.edu".
Institutional(row) ==
    /\ row.role = RPI
    /\ row.is_approved = TRUE
    /\ row.rcs_id = str_lower(SubSeq(row.email, 1, Len(row.email) - Len(RPI_SUFFIX)))

\* C1 as stated: every User row that a save writes with an address ending in
\* "@rpi.edu" has role RPI, is approved and has the lower-cased local part of
\* the address as its RCS id.
C1_EverySave ==
    \A pk \in DOMAIN users :
        Written(pk) /\ endswith(users[pk].email, RPI_SUFFIX) => Institutional(users[pk])

\* C1, amended: every User row that a save INSERTS (the first save of a new
\* instance) with an address ending in "@rpi.edu" has role RPI, is approved and
\* has the lower-cased local part of the address as its RCS id, whatever the
\* caller gave for these fields.  A save of a row that exists changes none of them.
C1_EveryInsert ==
    \A pk \in DOMAIN users :
        Written(pk) /\ last.adding /\ endswith(users[pk].email, RPI_SUFFIX)
            => Institutional(users[pk])

\* create_user("A@rpi.edu", ...) has inserted a row, with the RCS id "a".
C1_Witness ==
    /\ last.op = "create_user"
    /\ last.result = "ok"
    /\ users[last.pk].email = <<"A">> \o RPI_SUFFIX
    /\ users[last.pk].rcs_id = <<"a">>

\* C6: every persisted User with a graduation year has the role RPI.
C6_GraduationYearOnlyRPI ==
    \A pk \in DOMAIN users :
        users[pk].graduation_year # NULL => users[pk].role = RPI

\* C9: a discord_link_callback of a logged-in user, with a code the provider
\* exchanges, stores the provider's id for that code on that user's row, leaves
\* every other row as it was, and answers with a redirect to "/".
C9_LinkStoresProviderId ==
    [][ (/\ last'.op = "discord_link_callback"
         /\ last'.pk # NULL
         /\ last'.code # ""
         /\ last'.exchange)
        => (/\ DOMAIN users' = DOMAIN users
            /\ users'[last'.pk].discord_user_id = (IF last'.code = "c1" THEN "d1" ELSE "d2")
            /\ \A k \in (DOMAIN users) \ {last'.pk} : users'[k] = users[k]
            /\ last'.result = "redirect:/") ]_vars

\* User 2 has linked the account "d2" while user 1 keeps the account "d1".
C9_Witness ==
    /\ last.op = "discord_link_callback"
    /\ last.pk = 2
    /\ last.code = "c2"
    /\ last.result = "redirect:/"
    /\ users[2].discord_user_id = "d2"
    /\ users[1].discord_user_id = "d1"

\* C13: a discord_link_callback of a logged-in user that fails changes no user.
\* Without a code it raises BadRequest and has not called the provider; when
\* the exchange raises HTTPError it stops; in both cases every persisted
\* discord_user_id, that of the logged-in user included, is as it was.
C13_FailedLinkChangesNothing ==
    [][ (/\ last'.op = "discord_link_callback"
         /\ last'.pk # NULL
         /\ (last'.code = "" \/ ~last'.exchange))
        => (/\ users' = users
            /\ last'.code = "" => (last'.result = "BadRequest" /\ ~last'.contacted)
            /\ last'.code # "" => (last'.result = "HTTPError" /\ last'.contacted)) ]_vars

\* The exchange has raised HTTPError for user 1, whose row still holds the
\* account "d1" linked earlier.
C13_Witness ==
    /\ last.op = "discord_link_callback"
    /\ last.pk = 1
    /\ last.result = "HTTPError"
    /\ users[1].discord_user_id = "d1"

\* C16: impersonate makes the user with the requested address the session's
\* user only when settings.DEBUG is true or the requesting user is a superuser;
\* for every other request, that of AnonymousUser and of an ordinary user
\* included, the session's user stays who it was and the answer is a redirect
\* to "/".
C16_ImpersonateOnlyPrivileged ==
    [][ last'.op = "impersonate"
        => (/\ session' # session =>
                  (/\ settings.DEBUG \/ request_user_is_superuser
                   /\ last'.has_email
                   /\ session' \in DOMAIN users
                   /\ users[session'].email = last'.email)
            /\ ~(settings.DEBUG \/ request_user_is_superuser) =>
                  (session' = session /\ last'.result = "redirect:/")) ]_vars

\* With DEBUG off, the superuser (user 1) has become user 2 by impersonate.
C16_Witness ==
    /\ last.op = "impersonate"
    /\ ~settings.DEBUG
    /\ last.pk = 1
    /\ users[1].is_superuser
    /\ session = 2
    /\ last.result = "redirect:/"

\* C11: rcs_id is optional.  Creating a User whose address is set, is held by
\* no persisted user and does not end in "@rpi.edu", with an empty rcs_id,
\* persists the user, however many persisted users have an empty rcs_id.
C11_EmptyRcsIdAlwaysAccepted ==
    [][ \A email \in Emails \ {<<>>} :
          (/\ last'.op = "create_user"
           /\ ~endswith(normalize_email(email), RPI_SUFFIX)
           /\ \A k \in DOMAIN users : users[k].email # normalize_email(email)
           /\ \E role \in Roles, is_approved \in BOOLEAN,
                 graduation_year \in GraduationYears :
                   create_user(email, role, is_approved, <<>>, graduation_year))
          => (/\ last'.result = "ok"
              /\ users'[last'.pk].rcs_id = <<>>) ]_vars

(***************************************************************************)
(* The claim about the dashboard.                                          *)
(***************************************************************************)
\* What the database holds for a statistic when a request arrives.
Statistic(key) ==
    IF key = "enrollment_count" THEN Cardinality(DOMAIN enrollments)
    ELSE IF key = "project_count" THEN Cardinality(DOMAIN projects)
    ELSE IF "active_semester" \in DOMAIN cache
         THEN {k \in DOMAIN enrollments :
                  /\ enrollments[k].semester = cache["active_semester"]
                  /\ enrollments[k].is_coordinator \/ enrollments[k].is_faculty_advisor}
         ELSE {}

\* The rows of the team of the user's enrollment in the active semester.
TeamOf(user) ==
    IF "active_semester" \notin DOMAIN cache THEN {}
    ELSE LET mine == {k \in DOMAIN enrollments :
                         /\ enrollments[k].user = user
                         /\ enrollments[k].semester = cache["active_semester"]
                         /\ enrollments[k].project # NULL}
         IN  {k \in DOMAIN enrollments :
                 \E m \in mine : /\ enrollments[k].project = enrollments[m].project
                                 /\ enrollments[k].semester = enrollments[m].semester}

\* C12: IndexView.get_context_data branches on authentication.  For
\* AnonymousUser each of enrollment_count, project_count and
\* active_semester_admins is the value in the cache when the key is present,
\* whatever the database holds now, and otherwise the value of the database,
\* which the cache holds under the key afterwards.  For a logged-in user the
\* three keys are neither read nor written; enrollment is the user's row of the
\* cached active semester and project_team_enrollments lists the rows of that
\* row's project in that semester, both as the database holds them; without a
\* cached active semester enrollment is None and the list is empty.
C12_IndexViewBranches ==
    [][ last'.op = "IndexView" =>
          IF last'.user = NULL
          THEN /\ \A key \in StatKeys :
                     /\ last'.data[key] = IF key \in DOMAIN cache THEN cache[key]
                                          ELSE Statistic(key)
                     /\ key \in DOMAIN cache'
                     /\ cache'[key] = last'.data[key]
               /\ \A key \in (DOMAIN cache') \ StatKeys :
                     key \in DOMAIN cache /\ cache'[key] = cache[key]
          ELSE /\ cache' = cache
               /\ last'.reads \cap StatKeys = {}
               /\ "active_semester" \notin DOMAIN cache =>
                     /\ last'.data.enrollment = NULL
                     /\ last'.data.project_team_enrollments = <<>>
               /\ "active_semester" \in DOMAIN cache =>
                     \A k \in DOMAIN enrollments :
                         (enrollments[k].user = last'.user
                          /\ enrollments[k].semester = cache["active_semester"])
                             <=> last'.data.enrollment = k
               /\ {last'.data.project_team_enrollments[n] :
                       n \in DOMAIN last'.data.project_team_enrollments} = TeamOf(last'.user)
               /\ Len(last'.data.project_team_enrollments) = Cardinality(TeamOf(last'.user))
      ]_vars

\* AnonymousUser has been shown the enrollment_count that the cache held, 1,
\* while the database holds two enrollments.
C12_Witness ==
    /\ last.op = "IndexView"
    /\ last.user = NULL
    /\ last.data.enrollment_count = 1
    /\ Cardinality(DOMAIN enrollments) = 2
    /\ cache["enrollment_count"] = 1

(***************************************************************************)
(* The claims about the Discord event of a meeting.                        *)
(***************************************************************************)
\* The last operation was a save() of a Meeting instance.
MeetingSaved == last.op \in {"Meeting.create", "Meeting.save"}

\* The first remote call of the last save, when it made one, was a create.
CreateIssued == Len(last.calls) >= 1 /\ last.calls[1].call = "create"

\* C2 as stated: a save of a meeting with no discord_event_id issues a create
\* call, and the id the call returns becomes the persisted discord_event_id.
C2_CreateWhenNoEventId ==
    MeetingSaved /\ last.before.discord_event_id = ""
        => /\ CreateIssued
           /\ last.calls[1].ok
                => meetings[last.pk].discord_event_id = last.calls[1].id

\* C2, amended: a save of a PUBLISHED meeting with no discord_event_id issues a
\* create call, and when the call returns an event its id becomes the
\* persisted discord_event_id; a save of an unpublished meeting with no
\* discord_event_id makes no remote call and stores no id.
C2_CreateWhenPublishedAndNoEventId ==
    MeetingSaved /\ last.before.discord_event_id = ""
        => IF last.before.is_published
           THEN /\ CreateIssued
                /\ last.calls[1].ok
                     => /\ last.calls[1].id # ""
                        /\ meetings[last.pk].discord_event_id = last.calls[1].id
           ELSE /\ last.calls = <<>>
                /\ meetings[last.pk].discord_event_id = ""

\* A published meeting without an event was saved, and its row holds the id
\* of the event the server created.
C2_Witness ==
    /\ MeetingSaved
    /\ last.before.discord_event_id = ""
    /\ last.before.is_published
    /\ last.calls[1] = [call |-> "create", id |-> "e1", ok |-> TRUE]
    /\ meetings[last.pk].discord_event_id = "e1"

\* C3: a save of a meeting that has a discord_event_id issues one update call,
\* for that id, when the meeting is published and no call when it is not; it
\* issues no create call and leaves the stored discord_event_id as it was.
C3_UpdateIffPublished ==
    MeetingSaved /\ last.before.discord_event_id # ""
        => /\ \A i \in 1..Len(last.calls) :
                /\ last.calls[i].call = "update"
                /\ last.calls[i].id = last.before.discord_event_id
           /\ Len(last.calls) = (IF last.before.is_published THEN 1 ELSE 0)
           /\ meetings[last.pk].discord_event_id = last.before.discord_event_id

\* A published meeting with the event "e1" was saved: one update of "e1".
C3_Witness ==
    /\ MeetingSaved
    /\ last.before.discord_event_id = "e1"
    /\ last.before.is_published
    /\ last.calls = <<[call |-> "update", id |-> "e1", ok |-> TRUE]>>
    /\ meetings[last.pk].discord_event_id = "e1"

\* The discord_event_id the meeting's row held when the last call of the last
\* save was issued: the created event's, if the save created one before.
IdAtLastCall ==
    IF Len(last.calls) = 2 THEN last.calls[1].id ELSE last.before.discord_event_id

\* C10: when a remote call of a save fails, the fields that save wrote remain
\* persisted and the stored discord_event_id is the one the row held when the
\* call was issued; and a save of a published meeting makes a remote call
\* again although an earlier call for that meeting has failed.
C10_BestEffortSync ==
    MeetingSaved
        => /\ last.raised
                => /\ last.pk \in DOMAIN meetings
                   /\ meetings[last.pk].name = last.before.name
                   /\ meetings[last.pk].is_published = last.before.is_published
                   /\ meetings[last.pk].discord_event_id = IdAtLastCall
           /\ last.had_failed /\ last.before.is_published => Len(last.calls) >= 1

\* A create call failed for a meeting an earlier call had failed for: the
\* new title is stored and the row still has no event id.
C10_Witness ==
    /\ MeetingSaved
    /\ last.had_failed
    /\ last.raised
    /\ last.calls = <<[call |-> "create", id |-> "", ok |-> FALSE]>>
    /\ last.before.name = "n2"
    /\ meetings[last.pk].name = "n2"
    /\ meetings[last.pk].discord_event_id = ""

\* C14: a save of a Meeting terminates.  A save of a published meeting with no
\* event id enters save() twice and no more (the caller's, and the one
\* sync_discord_event makes once the event is created): it makes one create
\* call and then, that call having returned, one update call for the event
\* created, and nothing else.  A save of an unpublished meeting makes no remote
\* call and enters save() once.
C14_SaveNestsOnce ==
    MeetingSaved =>
        /\ last.saves <= 2
        /\ ~last.before.is_published => (last.calls = <<>> /\ last.saves = 1)
        /\ (last.before.is_published /\ last.before.discord_event_id = "") =>
              /\ Len(last.calls) \in {1, 2}
              /\ last.calls[1].call = "create"
              /\ last.calls[1].ok =>
                    /\ Len(last.calls) = 2
                    /\ last.calls[2].call = "update"
                    /\ last.calls[2].id = last.calls[1].id
                    /\ last.saves = 2
              /\ ~last.calls[1].ok => (Len(last.calls) = 1 /\ last.saves = 1)

\* A published meeting without an event id has been saved: one create call,
\* then one update call for the same event, both returned, in two save() runs.
C14_Witness ==
    /\ MeetingSaved
    /\ last.before.is_published
    /\ last.before.discord_event_id = ""
    /\ Len(last.calls) = 2
    /\ last.calls[1].call = "create" /\ last.calls[1].ok
    /\ last.calls[2].call = "update" /\ last.calls[2].ok
    /\ last.saves = 2
    /\ ~last.raised

\* C15: at most one remote event is ever created for a Meeting.  Once the row
\* of a meeting holds an event id, no save of that meeting makes a create
\* call, whatever the order in which requests have loaded and saved it, and
\* the row keeps that id.
C15_AtMostOneEventPerMeeting ==
    [][ \A pk \in DOMAIN meetings :
          meetings[pk].discord_event_id # "" =>
              /\ meetings'[pk].discord_event_id = meetings[pk].discord_event_id
              /\ ~(/\ last'.op \in {"Meeting.create", "Meeting.save"}
                    /\ last'.pk = pk
                    /\ Len(last'.calls) >= 1
                    /\ last'.calls[1].call = "create") ]_vars

(***************************************************************************)
(* The claims about the unique indexes.                                    *)
(***************************************************************************)
\* The last operation tried to write an Enrollment row whose (semester, user)
\* another row of `table` has.
SecondEnrollment(op, table) ==
    /\ op.op \in {"Enrollment.create", "Enrollment.save"}
    /\ \E k \in (DOMAIN table) \ {op.pk} :
            table[k].semester = op.row.semester /\ table[k].user = op.row.user

\* C4: no two Enrollment rows have the same (semester, user), and a create or
\* save that would make a second such row is refused and leaves the table as
\* it was.
C4_EnrollmentUnique ==
    /\ [](\A j, k \in DOMAIN enrollments :
            j # k => ~(/\ enrollments[j].semester = enrollments[k].semester
                       /\ enrollments[j].user = enrollments[k].user))
    /\ [][SecondEnrollment(last', enrollments)
            => enrollments' = enrollments /\ last'.result = "IntegrityError"]_vars

\* A second enrollment of a user in a semester was refused while the table
\* held two rows.
C4_Witness ==
    /\ last.op \in {"Enrollment.create", "Enrollment.save"}
    /\ last.result = "IntegrityError"
    /\ Cardinality(DOMAIN enrollments) >= 2
    /\ \E k \in (DOMAIN enrollments) \ {last.pk} :
            enrollments[k].semester = last.row.semester /\ enrollments[k].user = last.row.user

\* C5: no two ProjectPitch rows have the same (semester, project), so that
\* is_seeking_members has at most one pitch to return.
C5_PitchUnique ==
    /\ \A j, k \in DOMAIN pitches :
            j # k => ~(/\ pitches[j].semester = pitches[k].semester
                       /\ pitches[j].project = pitches[k].project)
    /\ \A project \in DOMAIN projects, semester \in DOMAIN semesters :
            Cardinality(is_seeking_members(project, semester)) <= 1

\* A second pitch of a project in a semester was refused; the project has its
\* one pitch, and another project has one in the same semester.
C5_Witness ==
    /\ last.op \in {"ProjectPitch.create", "ProjectPitch.save"}
    /\ last.result = "IntegrityError"
    /\ Cardinality(is_seeking_members(last.row.project, last.row.semester)) = 1
    /\ \E project \in DOMAIN projects :
            /\ project # last.row.project
            /\ Cardinality(is_seeking_members(project, last.row.semester)) = 1

(***************************************************************************)
(* The claims about deletion.                                              *)
(***************************************************************************)
\* Every reference the claim names is to a row that exists, or is NULL.
NoDanglingReference ==
    /\ \A k \in DOMAIN enrollments :
            /\ enrollments[k].semester \in DOMAIN semesters
            /\ enrollments[k].user \in DOMAIN users
            /\ enrollments[k].project \in DOMAIN projects \cup {NULL}
    /\ \A k \in DOMAIN projects : projects[k].owner \in DOMAIN users \cup {NULL}
    /\ \A k \in DOMAIN meetings : meetings[k].host \in DOMAIN users \cup {NULL}

\* Deleting a User or a Semester deletes exactly its enrollments.
DeletesItsEnrollments(fk) ==
    /\ DOMAIN enrollments' = {k \in DOMAIN enrollments : enrollments[k][fk] # last'.pk}
    /\ \A k \in DOMAIN enrollments' : enrollments'[k] = enrollments[k]

\* Deleting a Project deletes no enrollment and changes only the project of
\* the enrollments in it, to NULL.
NullsItsEnrollments ==
    /\ DOMAIN enrollments' = DOMAIN enrollments
    /\ \A k \in DOMAIN enrollments :
            /\ enrollments'[k].semester = enrollments[k].semester
            /\ enrollments'[k].user = enrollments[k].user
            /\ enrollments'[k].project =
                   (IF enrollments[k].project = last'.pk THEN NULL
                    ELSE enrollments[k].project)

\* Deleting a User deletes no project and changes only the owner of the
\* projects it owned, to NULL.
NullsItsProjects ==
    /\ DOMAIN projects' = DOMAIN projects
    /\ \A k \in DOMAIN projects :
            projects'[k].owner =
                (IF projects[k].owner = last'.pk THEN NULL ELSE projects[k].owner)

\* What a step that deletes a User, a Semester or a Project does to the
\* enrollments and the projects.
DeletionAsDeclared ==
    /\ (last'.op = "User.delete") => (DeletesItsEnrollments("user") /\ NullsItsProjects)
    /\ (last'.op = "Semester.delete") => DeletesItsEnrollments("semester")
    /\ (last'.op = "Project.delete") => NullsItsEnrollments

\* C7: after any deletions of Users, Projects and Semesters no Enrollment,
\* Project.owner or Meeting.host refers to a row that is gone; deleting a User
\* or a Semester deletes its enrollments, deleting a Project only sets the
\* project of its enrollments to NULL, and deleting a User only sets the owner
\* of its projects to NULL.
C7_DeletionKeepsReferences ==
    /\ []NoDanglingReference
    /\ [][DeletionAsDeclared]_vars

\* A User with an enrollment and a project was deleted: the enrollment is gone,
\* the project is there without an owner, and another enrollment remains.
C7_Witness ==
    /\ last.op = "User.delete"
    /\ last.deleted # {}
    /\ last.nulled # {}
    /\ \A k \in last.nulled : k \in DOMAIN projects /\ projects[k].owner = NULL
    /\ \A k \in last.deleted : k \notin DOMAIN enrollments
    /\ enrollments # NoRows

(***************************************************************************)
(* The claim about can_propose_project.                                    *)
(***************************************************************************)
\* The conditions under which the user may propose a project in the semester.
MayPropose(user, semester) ==
    /\ users[user].is_approved
    /\ users[user].is_active
    /\ semester # NULL
    /\ semesters[semester].start_date <= today
    /\ today <= semesters[semester].end_date
    /\ semesters[semester].is_accepting_new_projects
    /\ Cardinality({k \in DOMAIN projects : projects[k].owner = user}) < 4
    /\ ~\E k \in DOMAIN enrollments :
            /\ enrollments[k].user = user
            /\ enrollments[k].semester = semester
            /\ enrollments[k].project # NULL

\* C8: can_propose_project(semester) returns True when the user is approved and
\* active, the semester is given, is active and accepts new projects, the user
\* owns fewer than 4 projects and has no enrollment with a project in that
\* semester; in every other case it returns False.
C8_CanProposeExactly ==
    last.op = "can_propose_project"
        => last.result = (IF MayPropose(last.user, last.semester) THEN "True" ELSE "False")

\* True for a user who owns 3 projects and is enrolled in the semester without
\* a project, while another user is enrolled in it with a project.
C8_Witness ==
    /\ last.op = "can_propose_project"
    /\ last.result = "True"
    /\ Cardinality(owned_projects(last.user)) = 3
    /\ \E k \in DOMAIN enrollments :
            /\ enrollments[k].user = last.user
            /\ enrollments[k].semester = last.semester
            /\ enrollments[k].project = NULL
    /\ \E k \in DOMAIN enrollments :
            /\ enrollments[k].user # last.user
            /\ enrollments[k].semester = last.semester
            /\ enrollments[k].project # NULL

====
